---- MODULE Spec2Model ----
(***************************************************************************)
(* A model of twitch-recorder: the liveness wait loops (stream.py), the   *)
(* recording session loop (recorder.py), the post-processing pipeline     *)
(* (postprocess.py) and the top level that sequences them (cli.py).       *)
(*                                                                         *)
(* External collaborators (the liveness probe, streamlink, ffmpeg) are    *)
(* nondeterministic: every action that calls one draws its outcome with   *)
(* \E.  Time is the sum of the time.sleep() arguments of the active wait  *)
(* call (variable clock); probes and subprocess calls take no model time. *)
(***************************************************************************)
EXTENDS Integers, Sequences, FiniteSets, TLC

\* ------------------------------------------------------------------ bounds

\* Granularity of the durations drawn for the wait loops, in seconds.
TimeUnit == 10
\* wait_until_live: timeout in 0..MaxTimeoutUnits, interval in 1..MaxIntervalUnits (units).
MaxTimeoutUnits == 9
MaxIntervalUnits == 3
\* wait_for_reconnect: grace_period in 0..MaxGraceUnits, check_interval in 1..MaxCheckUnits.
MaxGraceUnits == 6
MaxCheckUnits == 3
\* The whole program: max_reconnects in 0..MaxReconnects, waits of at most MainWaitUnits.
MaxReconnects == 2
MainWaitUnits == 2

\* ------------------------------------------------------------------ paths and files

\* The decimal digits of n, most significant first.
RECURSIVE Digits(_)
Digits(n) == IF n < 10 THEN <<n>> ELSE Append(Digits(n \div 10), n % 10)

\* f"{num:02d}": decimal, zero-padded to a minimum width of 2.
Fmt02(num) == IF num < 10 THEN <<0, num>> ELSE Digits(num)

\* output_dir / f"{session_id}_part{num:02d}.ts"
SegmentPath(num) == [name |-> "part", num |-> Fmt02(num), ext |-> "ts"]

\* output_dir / f"{channel} - {session_date}.mp4"
final_filename == [name |-> "final", num |-> <<>>, ext |-> "mp4"]

\* Every path the program can touch within the bounds.
Paths == {SegmentPath(n) : n \in 1..(MaxReconnects + 3)} \cup {final_filename}

\* A path with no file, and a file of a given size.
NoFile == [exists |-> FALSE, size |-> 0]
File(sz) == [exists |-> TRUE, size |-> sz]

\* File sizes: the code reads st_size only to compare it with 0 (and to log
\* it), so a size is 0 or 1, 1 standing for every non-empty file.
Sizes == {0, 1}

\* What an external tool can leave at its output path when it has run.
ToolOutputs == {NoFile} \cup {File(sz) : sz \in Sizes}

VARIABLES
    config,          \* the resolved Config
    args,            \* the parsed command line (no_wait)
    pc,              \* position of the single thread of control
    clock,           \* seconds slept by the active wait call
    waited,          \* the local `waited` of the active wait call
    wul_probes,      \* wait_until_live: <<[t, live]>> one per is_live call
    wfr_probes,      \* wait_for_reconnect: <<[t, live]>> one per is_live call (latest call)
    live,            \* main: result of the initial liveness check
    came_back,       \* run: result of the latest wait_for_reconnect
    segments,        \* RecordingSession.segments
    reconnect_count, \* RecordingSession.reconnect_count
    outcomes,        \* one entry per record_segment call: how the capture ended
    wait_results,    \* one entry per wait_for_reconnect call: its return value
    ended,           \* one entry per `break` of run's loop: which branch ended the session
    fs,              \* the filesystem: path -> file state
    fs_pre,          \* the filesystem when postprocess was entered
    concat_list,     \* the temporary concat list file: [exists, lines]
    job,             \* the ffmpeg command being run by postprocess
    calls,           \* the ffmpeg invocations made so far
    success,         \* postprocess: the local `success`
    cleaned,         \* cleanup: how many files the loop has unlinked
    result,          \* postprocess's return value
    exit_code        \* main's return value

vars == <<config, args, pc, clock, waited, wul_probes, wfr_probes, live, came_back,
          segments, reconnect_count, outcomes, wait_results, ended, fs, fs_pre,
          concat_list, job, calls, success, cleaned, result, exit_code>>

waitVars == <<clock, waited, wul_probes, wfr_probes>>
sessionVars == <<segments, reconnect_count, outcomes, wait_results, ended>>
postVars == <<fs_pre, concat_list, job, calls, success, cleaned, result>>

\* Python's None where a path is expected (postprocess's return value).
NonePath == [name |-> "None", num |-> <<>>, ext |-> ""]

\* No concat list file on disk.
NoList == [exists |-> FALSE, lines |-> <<>>]

\* No ffmpeg command.
NoJob == [kind |-> "none", src |-> <<>>]

\* ------------------------------------------------------------------ configuration

\* Config with the fields the control flow reads.
MakeConfig(ok, maxr, merge, clean, iw, ri, gp, ci) ==
    [channel_ok |-> ok, max_reconnects |-> maxr,
     merge_segments |-> merge, cleanup_segments |-> clean,
     initial_wait |-> iw, retry_interval |-> ri,
     reconnect_grace_period |-> gp, reconnect_check_interval |-> ci]

Units(S) == {k * TimeUnit : k \in S}

\* Configurations of a whole run of main.
MainConfigs ==
    {MakeConfig(ok, maxr, merge, clean, iw, TimeUnit, gp, TimeUnit) :
        ok \in BOOLEAN, maxr \in 0..MaxReconnects, merge \in BOOLEAN, clean \in BOOLEAN,
        iw \in Units(0..MainWaitUnits), gp \in Units(1..MainWaitUnits)}

\* Arguments of a direct call of wait_until_live.
WaitLiveConfigs ==
    {MakeConfig(TRUE, 0, TRUE, TRUE, iw, ri, TimeUnit, TimeUnit) :
        iw \in Units(0..MaxTimeoutUnits), ri \in Units(1..MaxIntervalUnits)}

\* Arguments of a direct call of wait_for_reconnect.
ReconnectConfigs ==
    {MakeConfig(TRUE, 0, TRUE, TRUE, TimeUnit, TimeUnit, gp, ci) :
        gp \in Units(0..MaxGraceUnits), ci \in Units(1..MaxCheckUnits)}

\* Everything but config, args, pc and the pre-existing files.  The locals and
\* return values (live, came_back, success, result, exit_code) hold a
\* placeholder until the code assigns them; pc tells when they are meaningful.
InitRest ==
    /\ clock = 0
    /\ waited = 0
    /\ wul_probes = <<>>
    /\ wfr_probes = <<>>
    /\ live = FALSE
    /\ came_back = FALSE
    /\ segments = <<>>
    /\ reconnect_count = 0
    /\ outcomes = <<>>
    /\ wait_results = <<>>
    /\ ended = <<>>
    /\ fs_pre = fs
    /\ concat_list = NoList
    /\ job = NoJob
    /\ calls = <<>>
    /\ success = FALSE
    /\ cleaned = 0
    /\ result = NonePath
    /\ exit_code = -1

\* main is entered: nothing of the session exists; a final file of an earlier
\* run of the same day may.
Init ==
    /\ config \in MainConfigs
    /\ args \in [no_wait : BOOLEAN]
    /\ pc = "validate"
    /\ \E old \in {NoFile, File(1)} :
          fs = [p \in Paths |-> IF p = final_filename THEN old ELSE NoFile]
    /\ InitRest

\* ------------------------------------------------------------------ stream.py

\* wait_until_live's loop condition.
WulContinue_Le == waited <= config.initial_wait
WulContinue == waited < config.initial_wait

\* One iteration of wait_until_live's loop: probe, then return or sleep.
WulIter_SleepFirst(is_live) ==
    /\ pc = "wul"
    /\ WulContinue
    /\ clock' = clock + config.retry_interval
    /\ waited' = waited + config.retry_interval
    /\ wul_probes' = Append(wul_probes, [t |-> clock', live |-> is_live])
    /\ IF is_live
          THEN /\ live' = TRUE
               /\ pc' = "wul_done"
          ELSE UNCHANGED <<live, pc>>
    /\ UNCHANGED <<config, args, wfr_probes, came_back, sessionVars, fs, postVars, exit_code>>

WulIter(is_live) ==
    /\ pc = "wul"
    /\ WulContinue
    /\ wul_probes' = Append(wul_probes, [t |-> clock, live |-> is_live])
    /\ IF is_live
          THEN /\ live' = TRUE
               /\ pc' = "wul_done"
               /\ UNCHANGED <<clock, waited>>
          ELSE /\ clock' = clock + config.retry_interval
               /\ waited' = waited + config.retry_interval
               /\ UNCHANGED <<live, pc>>
    /\ UNCHANGED <<config, args, wfr_probes, came_back, sessionVars, fs, postVars, exit_code>>

\* wait_until_live's loop ends without a live probe.
WulTimeout ==
    /\ pc = "wul"
    /\ ~WulContinue
    /\ live' = FALSE
    /\ pc' = "wul_done"
    /\ UNCHANGED <<config, args, waitVars, came_back, sessionVars, fs, postVars, exit_code>>

\* wait_for_reconnect's loop condition.
WfrContinue == waited < config.reconnect_grace_period

\* One iteration of wait_for_reconnect's loop: sleep, then probe.
WfrIter_ProbeFirst(is_live) ==
    /\ pc = "wfr"
    /\ WfrContinue
    /\ wfr_probes' = Append(wfr_probes, [t |-> clock, live |-> is_live])
    /\ IF is_live
          THEN /\ came_back' = TRUE
               /\ wait_results' = Append(wait_results, TRUE)
               /\ pc' = "wfr_done"
               /\ UNCHANGED <<clock, waited>>
          ELSE /\ clock' = clock + config.reconnect_check_interval
               /\ waited' = waited + config.reconnect_check_interval
               /\ UNCHANGED <<came_back, wait_results, pc>>
    /\ UNCHANGED <<config, args, wul_probes, live, segments, reconnect_count, outcomes,
                   ended, fs, postVars, exit_code>>

WfrIter(is_live) ==
    /\ pc = "wfr"
    /\ WfrContinue
    /\ clock' = clock + config.reconnect_check_interval
    /\ waited' = waited + config.reconnect_check_interval
    /\ wfr_probes' = Append(wfr_probes, [t |-> clock', live |-> is_live])
    /\ IF is_live
          THEN /\ came_back' = TRUE
               /\ wait_results' = Append(wait_results, TRUE)
               /\ pc' = "wfr_done"
          ELSE UNCHANGED <<came_back, wait_results, pc>>
    /\ UNCHANGED <<config, args, wul_probes, live, segments, reconnect_count, outcomes,
                   ended, fs, postVars, exit_code>>

\* wait_for_reconnect's loop ends without a live probe.
WfrExpire ==
    /\ pc = "wfr"
    /\ ~WfrContinue
    /\ came_back' = FALSE
    /\ wait_results' = Append(wait_results, FALSE)
    /\ pc' = "wfr_done"
    /\ UNCHANGED <<config, args, waitVars, live, segments, reconnect_count, outcomes,
                   ended, fs, postVars, exit_code>>

\* A direct call of wait_until_live(timeout, interval).
InitWaitLive ==
    /\ config \in WaitLiveConfigs
    /\ args = [no_wait |-> FALSE]
    /\ pc = "wul"
    /\ fs = [p \in Paths |-> NoFile]
    /\ InitRest

NextWaitLive == (\E is_live \in BOOLEAN : WulIter(is_live)) \/ WulTimeout

SpecWaitLive == InitWaitLive /\ [][NextWaitLive]_vars

\* A direct call of wait_for_reconnect(grace_period, check_interval).
InitReconnect ==
    /\ config \in ReconnectConfigs
    /\ args = [no_wait |-> FALSE]
    /\ pc = "wfr"
    /\ fs = [p \in Paths |-> NoFile]
    /\ InitRest

NextReconnect == (\E is_live \in BOOLEAN : WfrIter(is_live)) \/ WfrExpire

SpecReconnect == InitReconnect /\ [][NextReconnect]_vars

\* ------------------------------------------------------------------ recorder.py

\* RecordingSession.next_segment_path
next_segment_path_ByAttempt == SegmentPath(Len(outcomes) + 1)
next_segment_path == SegmentPath(Len(segments) + 1)

\* How a streamlink invocation can end: the process exited (any exit code),
\* the binary was not found, or subprocess.run raised another exception.
CaptureEnds == {"exited", "not_found", "error"}

\* The segment validation of record_segment: the file exists and is not empty.
SegmentValid(f) == f.exists /\ f.size # 0

\* RecordingSession.record_segment, whole: run streamlink, validate the file,
\* discard or append it.  `written` is what the tool left at the segment path.
record_segment(how, written) ==
    LET segment_path == next_segment_path IN
    /\ pc = "record"
    /\ CASE how = "not_found" ->
              /\ outcomes' = Append(outcomes, "not_found")
              /\ UNCHANGED <<fs, segments>>
         [] how = "error" ->
              /\ outcomes' = Append(outcomes, "error")
              /\ fs' = [fs EXCEPT ![segment_path] = written]
              /\ UNCHANGED segments
         [] how = "exited" /\ ~SegmentValid(written) ->
              /\ outcomes' = Append(outcomes, "empty")
              /\ fs' = [fs EXCEPT ![segment_path] = NoFile]
              /\ UNCHANGED segments
         [] how = "exited" /\ SegmentValid(written) ->
              /\ outcomes' = Append(outcomes, "produced")
              /\ fs' = [fs EXCEPT ![segment_path] = written]
              /\ segments' = Append(segments, segment_path)
    /\ pc' = "check"
    /\ UNCHANGED <<config, args, waitVars, live, came_back, reconnect_count, wait_results,
                   ended, postVars, exit_code>>

\* run: the reconnect budget test.
BudgetExhausted_Gt == reconnect_count > config.max_reconnects
BudgetExhausted == reconnect_count >= config.max_reconnects

\* run, after record_segment returned (its return value is not read): end the
\* session when the budget is exhausted, else call wait_for_reconnect.
RunCheckBudget_WaitFirst ==
    /\ pc = "check"
    /\ pc' = "wfr"
    /\ clock' = 0
    /\ waited' = 0
    /\ wfr_probes' = <<>>
    /\ UNCHANGED <<config, args, wul_probes, live, came_back, sessionVars, fs, postVars,
                   exit_code>>

RunCheckBudget ==
    /\ pc = "check"
    /\ IF BudgetExhausted
          THEN /\ ended' = Append(ended, "budget_exhausted")
               /\ pc' = "post"
               /\ UNCHANGED waitVars
          ELSE /\ pc' = "wfr"
               /\ clock' = 0
               /\ waited' = 0
               /\ wfr_probes' = <<>>
               /\ UNCHANGED <<wul_probes, ended>>
    /\ UNCHANGED <<config, args, live, came_back, segments, reconnect_count, outcomes,
                   wait_results, fs, postVars, exit_code>>

\* run, after wait_for_reconnect returned (its locals are gone): count the
\* reconnect and capture again, or end the session.
RunAfterWait_CountBoth ==
    /\ pc = "wfr_done"
    /\ reconnect_count' = reconnect_count + 1
    /\ IF came_back
          THEN /\ pc' = "record"
               /\ UNCHANGED ended
          ELSE /\ ended' = Append(ended, "stream_ended")
               /\ pc' = "post"
    /\ clock' = 0
    /\ waited' = 0
    /\ wfr_probes' = <<>>
    /\ UNCHANGED <<config, args, wul_probes, live, came_back, segments, outcomes,
                   wait_results, fs, postVars, exit_code>>

RunAfterWait_NoBreak ==
    /\ pc = "wfr_done"
    /\ IF came_back
          THEN /\ reconnect_count' = reconnect_count + 1
               /\ UNCHANGED ended
          ELSE /\ ended' = Append(ended, "stream_ended")
               /\ UNCHANGED reconnect_count
    /\ pc' = "record"
    /\ clock' = 0
    /\ waited' = 0
    /\ wfr_probes' = <<>>
    /\ UNCHANGED <<config, args, wul_probes, live, came_back, segments, outcomes,
                   wait_results, fs, postVars, exit_code>>

RunAfterWait_CountProduced ==
    /\ pc = "wfr_done"
    /\ IF came_back
          THEN /\ reconnect_count' = IF outcomes[Len(outcomes)] = "produced"
                                        THEN reconnect_count + 1 ELSE reconnect_count
               /\ pc' = "record"
               /\ UNCHANGED ended
          ELSE /\ ended' = Append(ended, "stream_ended")
               /\ pc' = "post"
               /\ UNCHANGED reconnect_count
    /\ clock' = 0
    /\ waited' = 0
    /\ wfr_probes' = <<>>
    /\ UNCHANGED <<config, args, wul_probes, live, came_back, segments, outcomes,
                   wait_results, fs, postVars, exit_code>>

RunAfterWait ==
    /\ pc = "wfr_done"
    /\ IF came_back
          THEN /\ reconnect_count' = reconnect_count + 1
               /\ pc' = "record"
               /\ UNCHANGED ended
          ELSE /\ ended' = Append(ended, "stream_ended")
               /\ pc' = "post"
               /\ UNCHANGED reconnect_count
    /\ clock' = 0
    /\ waited' = 0
    /\ wfr_probes' = <<>>
    /\ UNCHANGED <<config, args, wul_probes, live, came_back, segments, outcomes,
                   wait_results, fs, postVars, exit_code>>

\* A direct call of RecordingSession.run on a fresh session.
RunConfigs ==
    {MakeConfig(TRUE, maxr, TRUE, TRUE, TimeUnit, TimeUnit, gp, ci) :
        maxr \in 0..MaxReconnects, gp \in Units(0..MainWaitUnits),
        ci \in Units(1..MainWaitUnits)}

InitRun ==
    /\ config \in RunConfigs
    /\ args = [no_wait |-> FALSE]
    /\ pc = "record"
    /\ fs = [p \in Paths |-> NoFile]
    /\ InitRest

NextRun ==
    \/ \E how \in CaptureEnds, written \in ToolOutputs : record_segment(how, written)
    \/ RunCheckBudget
    \/ \E is_live \in BOOLEAN : WfrIter(is_live)
    \/ WfrExpire
    \/ RunAfterWait

\* run is one blocking thread: whenever a step is possible (a capture or a
\* sleep-and-probe that returns), it is eventually taken.
SpecRun == InitRun /\ [][NextRun]_vars /\ WF_vars(NextRun)

\* ------------------------------------------------------------------ postprocess.py

\* merge_segments: the lines of the concat list file, one per segment.
ConcatList_Reversed(segs) == [i \in 1..Len(segs) |-> segs[Len(segs) + 1 - i]]
ConcatList(segs) == segs

\* How an ffmpeg invocation can end (_run_ffmpeg): exit code 0, another exit
\* code, binary not found, or the 3600 s timeout.
FfmpegEnds == {"ok", "nonzero", "not_found", "timeout"}

\* _run_ffmpeg's return value: True only for exit code 0; a non-zero exit, a
\* missing binary and the timeout are caught and give False.
FfmpegSuccess_IgnoreExit(how) == how \in {"ok", "nonzero"}
FfmpegSuccess(how) == how = "ok"

\* postprocess: the verification of the final file.
Verified_ExitCodeOnly == success
Verified_NoSize == success /\ fs[final_filename].exists
Verified == success /\ fs[final_filename].exists /\ fs[final_filename].size > 0

\* postprocess, up to the transcode call: choose remux, merge or neither.
PostStart_MergeFirst ==
    /\ pc = "post"
    /\ fs_pre' = fs
    /\ IF segments = <<>>
          THEN /\ result' = NonePath
               /\ pc' = "report"
               /\ UNCHANGED <<job, concat_list>>
          ELSE IF ~config.merge_segments
          THEN /\ result' = segments[1]
               /\ pc' = "report"
               /\ UNCHANGED <<job, concat_list>>
          ELSE /\ job' = [kind |-> "concat", src |-> <<>>]
               /\ concat_list' = [exists |-> TRUE, lines |-> ConcatList(segments)]
               /\ pc' = "ffmpeg"
               /\ UNCHANGED result
    /\ UNCHANGED <<config, args, waitVars, live, came_back, sessionVars, fs, calls, success,
                   cleaned, exit_code>>

PostStart_LastPart ==
    /\ pc = "post"
    /\ fs_pre' = fs
    /\ IF segments = <<>>
          THEN /\ result' = NonePath
               /\ pc' = "report"
               /\ UNCHANGED <<job, concat_list>>
          ELSE IF Len(segments) = 1
          THEN /\ job' = [kind |-> "remux", src |-> <<segments[1]>>]
               /\ pc' = "ffmpeg"
               /\ UNCHANGED <<result, concat_list>>
          ELSE IF config.merge_segments
          THEN /\ job' = [kind |-> "concat", src |-> <<>>]
               /\ concat_list' = [exists |-> TRUE, lines |-> ConcatList(segments)]
               /\ pc' = "ffmpeg"
               /\ UNCHANGED result
          ELSE /\ result' = segments[Len(segments)]
               /\ pc' = "report"
               /\ UNCHANGED <<job, concat_list>>
    /\ UNCHANGED <<config, args, waitVars, live, came_back, sessionVars, fs, calls, success,
                   cleaned, exit_code>>

PostStart ==
    /\ pc = "post"
    /\ fs_pre' = fs
    /\ IF segments = <<>>
          THEN /\ result' = NonePath
               /\ pc' = "report"
               /\ UNCHANGED <<job, concat_list>>
          ELSE IF Len(segments) = 1
          THEN /\ job' = [kind |-> "remux", src |-> <<segments[1]>>]
               /\ pc' = "ffmpeg"
               /\ UNCHANGED <<result, concat_list>>
          ELSE IF config.merge_segments
          THEN /\ job' = [kind |-> "concat", src |-> <<>>]
               /\ concat_list' = [exists |-> TRUE, lines |-> ConcatList(segments)]
               /\ pc' = "ffmpeg"
               /\ UNCHANGED result
          ELSE /\ result' = segments[1]
               /\ pc' = "report"
               /\ UNCHANGED <<job, concat_list>>
    /\ UNCHANGED <<config, args, waitVars, live, came_back, sessionVars, fs, calls, success,
                   cleaned, exit_code>>

\* remux_single / merge_segments running _run_ffmpeg: the invocation, its
\* outcome, what it left at the destination, and the removal of the list file.
RunFfmpeg(how, written) ==
    /\ pc = "ffmpeg"
    /\ calls' = Append(calls, [kind |-> job.kind,
                               inputs |-> IF job.kind = "remux" THEN job.src
                                          ELSE concat_list.lines,
                               how |-> how])
    /\ fs' = IF how = "not_found" THEN fs ELSE [fs EXCEPT ![final_filename] = written]
    /\ success' = FfmpegSuccess(how)
    /\ concat_list' = IF job.kind = "concat" THEN NoList ELSE concat_list
    /\ pc' = "verify"
    /\ UNCHANGED <<config, args, waitVars, live, came_back, sessionVars, fs_pre, job,
                   cleaned, result, exit_code>>

\* postprocess, after the transcode call: verify the final file, then clean
\* up or return.
PostVerify ==
    /\ pc = "verify"
    /\ IF Verified
          THEN IF config.cleanup_segments
                  THEN /\ pc' = "cleanup"
                       /\ cleaned' = 0
                       /\ UNCHANGED result
                  ELSE /\ result' = final_filename
                       /\ pc' = "report"
                       /\ UNCHANGED cleaned
          ELSE /\ result' = NonePath
               /\ pc' = "report"
               /\ UNCHANGED cleaned
    /\ UNCHANGED <<config, args, waitVars, live, came_back, sessionVars, fs, fs_pre,
                   concat_list, job, calls, success, exit_code>>

\* cleanup: one iteration of the loop, f.unlink(missing_ok=True).
CleanupStep ==
    /\ pc = "cleanup"
    /\ cleaned < Len(segments)
    /\ fs' = [fs EXCEPT ![segments[cleaned + 1]] = NoFile]
    /\ cleaned' = cleaned + 1
    /\ UNCHANGED <<config, args, pc, waitVars, live, came_back, sessionVars, fs_pre,
                   concat_list, job, calls, success, result, exit_code>>

\* cleanup returns, and postprocess returns the final path.
CleanupDone ==
    /\ pc = "cleanup"
    /\ cleaned = Len(segments)
    /\ result' = final_filename
    /\ pc' = "report"
    /\ UNCHANGED <<config, args, waitVars, live, came_back, sessionVars, fs, fs_pre,
                   concat_list, job, calls, success, cleaned, exit_code>>

\* ------------------------------------------------------------------ cli.py

\* main: config.validate(); a ValueError returns 1.
Validate ==
    /\ pc = "validate"
    /\ IF config.channel_ok
          THEN /\ pc' = "live_check"
               /\ UNCHANGED exit_code
          ELSE /\ pc' = "done"
               /\ exit_code' = 1
    /\ UNCHANGED <<config, args, waitVars, live, came_back, sessionVars, fs, postVars>>

\* main with --no-wait: one is_live probe; offline returns 0.
NoWaitProbe(is_live) ==
    /\ pc = "live_check"
    /\ args.no_wait
    /\ live' = is_live
    /\ IF is_live
          THEN /\ pc' = "record"
               /\ UNCHANGED exit_code
          ELSE /\ pc' = "done"
               /\ exit_code' = 0
    /\ UNCHANGED <<config, args, waitVars, came_back, sessionVars, fs, postVars>>

\* main without --no-wait: call wait_until_live.
CallWaitUntilLive ==
    /\ pc = "live_check"
    /\ ~args.no_wait
    /\ pc' = "wul"
    /\ clock' = 0
    /\ waited' = 0
    /\ wul_probes' = <<>>
    /\ UNCHANGED <<config, args, wfr_probes, live, came_back, sessionVars, fs, postVars,
                   exit_code>>

\* main, after wait_until_live returned (its locals are gone): start the
\* session, or return 0.
AfterWaitUntilLive_IgnoreResult ==
    /\ pc = "wul_done"
    /\ pc' = "record"
    /\ clock' = 0
    /\ waited' = 0
    /\ wul_probes' = <<>>
    /\ UNCHANGED <<config, args, wfr_probes, live, came_back, sessionVars, fs, postVars,
                   exit_code>>

AfterWaitUntilLive ==
    /\ pc = "wul_done"
    /\ IF live
          THEN /\ pc' = "record"
               /\ UNCHANGED exit_code
          ELSE /\ pc' = "done"
               /\ exit_code' = 0
    /\ clock' = 0
    /\ waited' = 0
    /\ wul_probes' = <<>>
    /\ UNCHANGED <<config, args, wfr_probes, live, came_back, sessionVars, fs, postVars>>

\* main, after postprocess returned: log the result and return 0.
Report ==
    /\ pc = "report"
    /\ pc' = "done"
    /\ exit_code' = 0
    /\ UNCHANGED <<config, args, waitVars, live, came_back, sessionVars, fs, postVars>>

Next ==
    \/ Validate
    \/ \E is_live \in BOOLEAN : NoWaitProbe(is_live)
    \/ CallWaitUntilLive
    \/ \E is_live \in BOOLEAN : WulIter(is_live)
    \/ WulTimeout
    \/ AfterWaitUntilLive
    \/ \E how \in CaptureEnds, written \in ToolOutputs : record_segment(how, written)
    \/ RunCheckBudget
    \/ \E is_live \in BOOLEAN : WfrIter(is_live)
    \/ WfrExpire
    \/ RunAfterWait
    \/ PostStart
    \/ \E how \in FfmpegEnds, written \in ToolOutputs : RunFfmpeg(how, written)
    \/ PostVerify
    \/ CleanupStep
    \/ CleanupDone
    \/ Report

Spec == Init /\ [][Next]_vars

\* ------------------------------------------------------------------ properties

\* The sequence number a segment path carries (the NN of partNN), read back
\* from its digits.
RECURSIVE DigitsValue(_)
DigitsValue(ds) ==
    IF ds = <<>> THEN 0
    ELSE 10 * DigitsValue(SubSeq(ds, 1, Len(ds) - 1)) + ds[Len(ds)]

PartIndex(p) == DigitsValue(p.num)

\* The final file exists and is not empty.
FinalOk == fs[final_filename].exists /\ fs[final_filename].size > 0

\* run has returned / postprocess has returned.
RunReturned ==
    \/ pc \in {"post", "ffmpeg", "verify", "cleanup", "report"}
    \/ pc = "done" /\ outcomes # <<>>
PostReturned ==
    \/ pc = "report"
    \/ pc = "done" /\ outcomes # <<>>

\* The capture tool was found missing by some capture attempt.
ToolUnavailable == \E i \in 1..Len(outcomes) : outcomes[i] = "not_found"

\* C1: postprocess deletes a segment file only in a step in which the final
\* file exists with size > 0, and whenever postprocess has returned with a
\* segment file missing, the final file exists with size > 0: after a failed,
\* timed-out, tool-less or unverifiable transcode every segment is still there.
C1_DeleteOnlyVerified ==
    /\ [][\A i \in 1..Len(segments) :
            (pc \in {"post", "ffmpeg", "verify", "cleanup"}
             /\ fs[segments[i]].exists /\ ~fs'[segments[i]].exists) => FinalOk]_vars
    /\ [](PostReturned =>
            \/ \A i \in 1..Len(segments) : fs[segments[i]] = fs_pre[segments[i]]
                                            /\ fs[segments[i]].exists
            \/ FinalOk)

\* C1 witness: cleanup has deleted every one of several segments.
C1_Witness ==
    /\ pc = "cleanup"
    /\ Len(segments) >= 2
    /\ cleaned = Len(segments)
    /\ \A i \in 1..Len(segments) : ~fs[segments[i]].exists

\* C2: once a capture attempt found streamlink missing, that attempt is the
\* last one, no wait_for_reconnect is running or has run after it, and run is
\* ending or has ended.
C2_ToolUnavailableEndsRun ==
    \A i \in 1..Len(outcomes) :
        outcomes[i] = "not_found" =>
            /\ i = Len(outcomes)
            /\ pc \notin {"record", "wfr", "wfr_done"}
            /\ Len(wait_results) = i - 1

\* C3: when main has returned after a session, its exit status is non-zero
\* exactly if a capture attempt found streamlink missing.
C3_ToolUnavailableExitStatus ==
    (pc = "done" /\ outcomes # <<>>) =>
        /\ ToolUnavailable => exit_code # 0
        /\ ~ToolUnavailable => exit_code = 0

\* C4: when run has returned and every wait_for_reconnect returned true, there
\* were exactly max_reconnects waits, max_reconnects + 1 capture attempts, and
\* reconnect_count equals max_reconnects.
C4_ExactReconnects ==
    (RunReturned /\ \A i \in 1..Len(wait_results) : wait_results[i]) =>
        /\ Len(wait_results) = config.max_reconnects
        /\ Len(outcomes) = config.max_reconnects + 1
        /\ reconnect_count = config.max_reconnects

\* C4 witness: max_reconnects = 2, the stream came back twice, run returned
\* after 3 attempts with the counter at 2.
C4_Witness ==
    /\ pc = "post"
    /\ config.max_reconnects = 2
    /\ wait_results = <<TRUE, TRUE>>
    /\ Len(outcomes) = 3
    /\ reconnect_count = 2

\* C5: the k-th accepted segment is part k, and the accepted segments are
\* exactly the attempts that produced a file, whatever was discarded between.
C5_DenseSegmentNumbers ==
    /\ \A k \in 1..Len(segments) : PartIndex(segments[k]) = k
    /\ Len(segments) = Cardinality({i \in 1..Len(outcomes) : outcomes[i] = "produced"})

\* C5 witness: attempts 1 and 2 empty, attempt 3 produced part01.
C5_Witness ==
    /\ outcomes = <<"empty", "empty", "produced">>
    /\ Len(segments) = 1
    /\ segments[1].num = <<0, 1>>

\* C6: wait_until_live probes at 0, interval, 2*interval, ..., each at a time
\* < timeout; it returns true at the first live probe, without sleeping again,
\* and returns false only when no probe was live and the next probe time is
\* >= timeout.
C6_WaitUntilLive ==
    LET n == Len(wul_probes)
        timeout == config.initial_wait
        interval == config.retry_interval
    IN  /\ \A k \in 1..n : wul_probes[k].t = (k - 1) * interval /\ wul_probes[k].t < timeout
        /\ \A k \in 1..(n - 1) : ~wul_probes[k].live
        /\ (n >= 1 /\ wul_probes[n].live) => (pc = "wul_done" /\ live /\ clock = wul_probes[n].t)
        /\ (pc = "wul_done" /\ live) => (n >= 1 /\ wul_probes[n].live)
        /\ (pc = "wul_done" /\ ~live) => (n * interval >= timeout /\ clock = n * interval)

\* C6 witness: timeout 90, interval 30, live on the 3rd call: probes at 0, 30
\* and 60, true at 60.
C6_Witness ==
    /\ pc = "wul_done"
    /\ live
    /\ config.initial_wait = 90
    /\ config.retry_interval = 30
    /\ wul_probes = <<[t |-> 0, live |-> FALSE], [t |-> 30, live |-> FALSE],
                      [t |-> 60, live |-> TRUE]>>
    /\ clock = 60

\* C7: wait_for_reconnect's k-th probe is at k * check_interval, so none is
\* before check_interval; with grace_period a positive multiple of
\* check_interval and no live probe it returns false after exactly
\* grace_period / check_interval probes, the last at grace_period.
C7_WaitForReconnect ==
    LET n == Len(wfr_probes)
        grace_period == config.reconnect_grace_period
        check_interval == config.reconnect_check_interval
    IN  /\ \A k \in 1..n : wfr_probes[k].t = k * check_interval
        /\ (/\ pc = "wfr_done"
            /\ grace_period > 0
            /\ grace_period % check_interval = 0
            /\ \A k \in 1..n : ~wfr_probes[k].live)
           => /\ ~came_back
              /\ n * check_interval = grace_period
              /\ wfr_probes[n].t = grace_period
              /\ clock = grace_period

\* C7 witness: grace_period 60, check_interval 20, never live: 3 probes at 20,
\* 40, 60 and false at 60.
C7_Witness ==
    /\ pc = "wfr_done"
    /\ ~came_back
    /\ config.reconnect_grace_period = 60
    /\ config.reconnect_check_interval = 20
    /\ wfr_probes = <<[t |-> 20, live |-> FALSE], [t |-> 40, live |-> FALSE],
                      [t |-> 60, live |-> FALSE]>>
    /\ clock = 60

\* C8: postprocess makes at most one ffmpeg call; with one segment it is a
\* remux of that segment; with two or more and merge enabled it is a concat
\* whose list is the segments in list order, part01, part02, ...; and once the
\* transcode step is over there has been exactly one call.
C8_RemuxOrConcatInOrder ==
    /\ Len(calls) <= 1
    /\ Len(segments) = 1 =>
          /\ \A c \in 1..Len(calls) :
                calls[c].kind = "remux" /\ calls[c].inputs = <<segments[1]>>
          /\ pc \in {"verify", "cleanup", "report"} => Len(calls) = 1
    /\ (Len(segments) >= 2 /\ config.merge_segments) =>
          /\ \A c \in 1..Len(calls) :
                /\ calls[c].kind = "concat"
                /\ calls[c].inputs = segments
                /\ \A k \in 1..Len(calls[c].inputs) : PartIndex(calls[c].inputs[k]) = k
          /\ pc \in {"verify", "cleanup", "report"} => Len(calls) = 1

\* C8 witness: three segments were concatenated as part01, part02, part03.
C8_Witness ==
    /\ pc = "report"
    /\ Len(segments) = 3
    /\ Len(calls) = 1
    /\ calls[1].kind = "concat"
    /\ calls[1].inputs = <<SegmentPath(1), SegmentPath(2), SegmentPath(3)>>

\* C9: when postprocess has returned for two or more segments with merge
\* disabled, there was no ffmpeg call, the result is the first segment
\* (part01), and the filesystem is as it was on entry: nothing deleted,
\* no final file created.
C9_MergeDisabledKeepsParts ==
    (PostReturned /\ Len(segments) >= 2 /\ ~config.merge_segments) =>
        /\ calls = <<>>
        /\ result = segments[1]
        /\ PartIndex(result) = 1
        /\ fs = fs_pre
        /\ \A i \in 1..Len(segments) : fs[segments[i]].exists

\* C9 witness: two segments, merge disabled, cleanup enabled, postprocess returned.
C9_Witness ==
    /\ pc = "report"
    /\ Len(segments) = 2
    /\ ~config.merge_segments
    /\ config.cleanup_segments
    /\ result = SegmentPath(1)

\* C10: when postprocess has returned, it returned the final path only if the
\* final file exists with size > 0; and if ffmpeg exited 0 but the final file is
\* missing or empty, it returned None and every segment is as it was.
C10_VerifiedReturn ==
    PostReturned =>
        /\ result = final_filename => FinalOk
        /\ (calls # <<>> /\ calls[1].how = "ok" /\ ~FinalOk) =>
              /\ result = NonePath
              /\ \A i \in 1..Len(segments) :
                    fs[segments[i]] = fs_pre[segments[i]] /\ fs[segments[i]].exists

\* C10 witness: ffmpeg exited 0 leaving a zero-byte final file; postprocess
\* returned None with cleanup enabled.
C10_Witness ==
    /\ pc = "report"
    /\ calls # <<>>
    /\ calls[1].how = "ok"
    /\ fs[final_filename] = File(0)
    /\ config.cleanup_segments
    /\ result = NonePath

\* run's loop is running (a capture is in progress at "record") or has returned.
InRun == pc \in {"record", "check", "wfr", "wfr_done"} \/ RunReturned

\* C11: when postprocess has returned None after an ffmpeg call, there is no
\* file at the final path.
C11_NoArtifactOnFailure ==
    (PostReturned /\ calls # <<>> /\ result = NonePath) => ~fs[final_filename].exists

\* C12: reconnect_count is 0 until the first capture has ended, stays within
\* 0..max_reconnects, and changes only by +1, in the step of run that follows
\* a wait_for_reconnect that returned true.
C12_ReconnectCounter ==
    /\ [](/\ reconnect_count >= 0
          /\ reconnect_count <= config.max_reconnects
          /\ outcomes = <<>> => reconnect_count = 0)
    /\ [][reconnect_count' # reconnect_count =>
            /\ reconnect_count' = reconnect_count + 1
            /\ pc = "wfr_done"
            /\ came_back
            /\ wait_results # <<>>
            /\ wait_results[Len(wait_results)]]_vars

\* C12 witness: the counter has reached max_reconnects = 2 and the third
\* capture is starting.
C12_Witness ==
    /\ pc = "record"
    /\ config.max_reconnects = 2
    /\ reconnect_count = 2
    /\ wait_results = <<TRUE, TRUE>>

\* C13: run eventually returns; its loop is left at most once, exactly when run
\* has returned, through the budget branch (counter at the maximum, no wait
\* said the stream ended) or through the stream-ended branch (the last wait
\* returned false); and once it is left there is no capture and no wait.
C13_TerminatesOnce ==
    /\ <>(pc = "post")
    /\ [](/\ Len(ended) <= 1
          /\ (pc = "post") <=> (Len(ended) = 1)
          /\ ended # <<>> =>
                \/ /\ ended[1] = "budget_exhausted"
                   /\ reconnect_count >= config.max_reconnects
                   /\ \A i \in 1..Len(wait_results) : wait_results[i]
                \/ /\ ended[1] = "stream_ended"
                   /\ reconnect_count < config.max_reconnects
                   /\ wait_results # <<>>
                   /\ ~wait_results[Len(wait_results)])
    /\ [][ended # <<>> =>
            /\ outcomes' = outcomes
            /\ wait_results' = wait_results
            /\ ended' = ended
            /\ pc' \notin {"record", "check", "wfr", "wfr_done"}]_vars

\* C13 witness: run returned through the stream-ended branch after two captures.
C13_Witness ==
    /\ pc = "post"
    /\ ended = <<"stream_ended">>
    /\ Len(outcomes) = 2
    /\ wait_results = <<TRUE, FALSE>>

\* C14: for a positive grace_period, wait_for_reconnect has slept at most
\* grace_period seconds and made no probe later than grace_period.
C14_WithinGracePeriod ==
    config.reconnect_grace_period > 0 =>
        /\ clock <= config.reconnect_grace_period
        /\ \A k \in 1..Len(wfr_probes) : wfr_probes[k].t <= config.reconnect_grace_period

\* C15: wait_for_reconnect is only ever running with reconnect_count below
\* max_reconnects; with max_reconnects = 0 no wait and no probe ever happens
\* and run returns through the budget branch after exactly one capture.
C15_BudgetCheckedBeforeWait ==
    /\ pc \in {"wfr", "wfr_done"} => reconnect_count < config.max_reconnects
    /\ (InRun /\ config.max_reconnects = 0) =>
          /\ pc \notin {"wfr", "wfr_done"}
          /\ wait_results = <<>>
          /\ wfr_probes = <<>>
          /\ Len(outcomes) <= 1
          /\ RunReturned => (Len(outcomes) = 1 /\ ended = <<"budget_exhausted">>)

\* C15 witness: max_reconnects = 0, run has returned after one capture and no wait.
C15_Witness ==
    /\ pc = "post"
    /\ config.max_reconnects = 0
    /\ Len(outcomes) = 1
    /\ wait_results = <<>>
    /\ wfr_probes = <<>>

\* C16: a capture attempt either appends its path, with a non-empty file
\* there, or leaves the list unchanged and no file at its path; and the list
\* changes only by such an append.
C16_AppendOrDiscard ==
    [][/\ pc = "record" =>
            \/ /\ segments' = Append(segments, next_segment_path)
               /\ SegmentValid(fs'[next_segment_path])
            \/ /\ segments' = segments
               /\ ~fs'[next_segment_path].exists
       /\ segments' # segments =>
            /\ pc = "record"
            /\ segments' = Append(segments, next_segment_path)]_vars

\* The ways an ffmpeg invocation fails that _run_ffmpeg turns into False.
FfmpegFailures == {"nonzero", "not_found", "timeout"}

\* C17: postprocess makes at most one ffmpeg call; the call returns to
\* postprocess whatever its outcome; and after a non-zero exit, a missing
\* binary or the timeout, `success` is false, postprocess returns None and
\* every segment is as it was.
C17_NoRetryFailuresAreOutcomes ==
    /\ Len(calls) <= 1
    /\ pc \in {"verify", "cleanup"} => Len(calls) = 1
    /\ (calls # <<>> /\ calls[1].how \in FfmpegFailures) =>
          /\ ~success
          /\ pc # "cleanup"
          /\ PostReturned =>
                /\ result = NonePath
                /\ \A i \in 1..Len(segments) :
                      fs[segments[i]] = fs_pre[segments[i]] /\ fs[segments[i]].exists

\* C17 witness: ffmpeg timed out leaving a non-empty final file; postprocess
\* returned None with cleanup enabled and both segments in place.
C17_Witness ==
    /\ pc = "report"
    /\ Len(segments) = 2
    /\ config.cleanup_segments
    /\ Len(calls) = 1
    /\ calls[1].how = "timeout"
    /\ fs[final_filename] = File(1)
    /\ result = NonePath

\* C18: when postprocess has returned: with no segment there was no ffmpeg call
\* and the result is None; with one segment there was one remux of it, whatever
\* the merge flag, and on verified success the result is the final path and the
\* segment is deleted exactly if cleanup is enabled; and a result without any
\* ffmpeg call occurs only with two or more segments and merge disabled.
C18_OneSegmentRuleFirst ==
    PostReturned =>
        /\ segments = <<>> => (calls = <<>> /\ result = NonePath /\ fs = fs_pre)
        /\ Len(segments) = 1 =>
              /\ Len(calls) = 1
              /\ calls[1].kind = "remux"
              /\ calls[1].inputs = <<segments[1]>>
              /\ (calls[1].how = "ok" /\ FinalOk) =>
                    /\ result = final_filename
                    /\ config.cleanup_segments => ~fs[segments[1]].exists
                    /\ ~config.cleanup_segments => fs[segments[1]] = fs_pre[segments[1]]
        /\ (calls = <<>> /\ result # NonePath) =>
              (Len(segments) >= 2 /\ ~config.merge_segments)

\* C18 witness: one segment, merge disabled, cleanup enabled: remuxed, verified,
\* the segment deleted.
C18_Witness ==
    /\ pc = "report"
    /\ Len(segments) = 1
    /\ ~config.merge_segments
    /\ config.cleanup_segments
    /\ Len(calls) = 1
    /\ calls[1].kind = "remux"
    /\ result = final_filename
    /\ ~fs[SegmentPath(1)].exists

\* C19: wait_until_live returns true only after a live probe; a capture is in
\* progress or has happened only if the initial liveness check was true; and
\* when main has returned with that check false, it returned 0 with no capture
\* attempt, no wait for reconnect, no ffmpeg call and the filesystem untouched.
C19_NoCaptureBeforeLive ==
    /\ (pc = "wul_done" /\ live) =>
          (wul_probes # <<>> /\ wul_probes[Len(wul_probes)].live)
    /\ (InRun \/ outcomes # <<>>) => live
    /\ (pc = "done" /\ config.channel_ok /\ ~live) =>
          /\ exit_code = 0
          /\ outcomes = <<>>
          /\ segments = <<>>
          /\ wait_results = <<>>
          /\ calls = <<>>
          /\ result = NonePath
          /\ fs = fs_pre

\* C19 witness: the first capture has ended after wait_until_live returned true.
C19_Witness ==
    /\ pc = "check"
    /\ ~args.no_wait
    /\ live
    /\ Len(outcomes) = 1

\* C20: while run is running or has returned, the capture attempts started
\* (those ended, plus the one in progress) number reconnect_count + 1, and
\* len(segments) <= reconnect_count + 1 <= max_reconnects + 1.
C20_AttemptsFollowReconnects ==
    InRun =>
        LET started == Len(outcomes) + (IF pc = "record" THEN 1 ELSE 0)
        IN  /\ started = reconnect_count + 1
            /\ Len(segments) <= reconnect_count + 1
            /\ reconnect_count + 1 <= config.max_reconnects + 1

\* C20 witness: the budget of 2 is exhausted after three attempts, none accepted.
C20_Witness ==
    /\ pc = "post"
    /\ config.max_reconnects = 2
    /\ reconnect_count = 2
    /\ Len(outcomes) = 3
    /\ segments = <<>>
    /\ ended = <<"budget_exhausted">>

====
